---- MODULE Spec2Model ----
(***************************************************************************)
(* Model of fixedincomelib/product/linear_products.py: the cashflow        *)
(* products (ProductBulletCashflow, ProductFixedAccrued,                   *)
(* ProductOvernightIndexCashflow), the schedule-driven InterestRateStream  *)
(* and the two-legged ProductRFRSwap.                                      *)
(*                                                                         *)
(* Encoding conventions                                                    *)
(*   - a date is its serial day number (an integer);                       *)
(*   - a float is an integer (only sign, order and equality are used);     *)
(*   - Optional[T] is a sequence: <<>> is None, <<v>> is the value v;      *)
(*   - an object is a record carrying a "type" tag;                        *)
(*   - a call returns [ok, val, err, sched]: the object or the exception   *)
(*     raised, and the number of make_schedule requests it issued.         *)
(***************************************************************************)
EXTENDS Integers, Sequences, FiniteSets, TLC

(* ------------------------------ bounds -------------------------------- *)
MaxDate == 3
MaxNotional == 2
MaxRate == 1
MaxTerm == 2

Dates == 0..MaxDate
Notionals == (0 - MaxNotional)..MaxNotional
Rates == (0 - MaxRate)..MaxRate
Terms == 1..MaxTerm
Periods == {1, 2}
Offsets == {0, 1}
Spreads == {0, 1}
IndexNames == {"SOFR", "NOIDX"}
Currencies == {"USD"}

None == <<>>
Some(v) == <<v>>
Opt(S) == {None} \cup {Some(v) : v \in S}

NoObj == [type |-> "NONE"]
NoRet == [kind |-> "none"]
NoSer == [TYPE |-> "NONE"]
NoInp == [op |-> "none"]

Ok(v, n) == [ok |-> TRUE, val |-> v, err |-> "none", sched |-> n]
Raise(e, n) == [ok |-> FALSE, val |-> NoObj, err |-> e, sched |-> n]

(* --------------------- fixedincomelib.product.utilities --------------- *)
LONG == "LONG"
SHORT == "SHORT"
PAY == "PAY"
RECEIVE == "RECEIVE"
LongOrShort == {LONG, SHORT}
PayOrReceive == {PAY, RECEIVE}

(* --------------------- fixedincomelib.date ---------------------------- *)
\* Serial day 0 is 2024-02-27, so that the window crosses the leap day and a
\* month boundary.
EpochYear == 2024
EpochDayOfYear == 58
MonthLen == <<31, 29, 31, 30, 31, 30, 31, 31, 30, 31, 30, 31>>

RECURSIVE DaysBefore(_)
DaysBefore(m) == IF m = 1 THEN 0 ELSE DaysBefore(m - 1) + MonthLen[m - 1]

\* Date.ISO(): the (year, month, day) fields of the ISO-8601 string.
Date_ISO(d) ==
    LET n == EpochDayOfYear + d
        m == CHOOSE k \in 1..12 : DaysBefore(k) < n /\ n <= DaysBefore(k) + MonthLen[k]
    IN  <<EpochYear, m, n - DaysBefore(m)>>

\* Date(str): parse an ISO-8601 string back to a date.
Date_parse(s) == DaysBefore(s[2]) + s[3] - EpochDayOfYear

\* TermOrTerminationDate built from a date, from an ISO date string, from a tenor.
TermOrTerminationDate_date(d) == [is_term |-> FALSE, date |-> Some(d), term |-> None]
TermOrTerminationDate_str(s) == TermOrTerminationDate_date(Date_parse(s))
TermOrTerminationDate_term(t) == [is_term |-> TRUE, date |-> None, term |-> Some(t)]
TermOrTerminationDates ==
    {TermOrTerminationDate_date(d) : d \in Dates} \cup {TermOrTerminationDate_term(t) : t \in Terms}

\* calendar.advance(date, term, business_day_convention)
Calendar_advance(d, t) == d + t

\* accrued(effective, termination, basis, bdc, hc): the day count of the span.
accrued(eff, term) == term - eff

\* make_schedule(...) under the BACKWARD rule: period boundaries are rolled
\* back from the end date, the first period takes the stub; each row carries
\* its payment date (end date plus the payment offset).
RECURSIVE ScheduleDates(_, _, _)
ScheduleDates(start, end, period) ==
    IF end <= start THEN <<start>>
    ELSE Append(ScheduleDates(start, end - period, period), end)

make_schedule(start, end, period, offset) ==
    LET ds == ScheduleDates(start, end, period)
    IN  [k \in 1..(Len(ds) - 1) |->
            [StartDate |-> ds[k], EndDate |-> ds[k + 1], PaymentDate |-> ds[k + 1] + offset]]

(* --------------------- fixedincomelib.market -------------------------- *)
\* IndexRegistry().get(name): the registered overnight indices.
IndexRegistry == [n \in {"SOFR"} |-> [currency |-> "USD", businessDayConvention |-> "F"]]

COMPOUND == "COMPOUND"
AVERAGE == "AVERAGE"
CompoundingMethod == {COMPOUND, AVERAGE}
CompoundingMethod_to_string(m) == IF m = COMPOUND THEN "compound" ELSE "average"
upper(s) ==
    IF s = "compound" THEN "COMPOUND"
    ELSE IF s = "average" THEN "AVERAGE"
    ELSE IF s = "c" THEN "C"
    ELSE IF s = "p" THEN "P"
    ELSE s
CompoundingMethod_from_string(s) == IF upper(s) = "COMPOUND" THEN COMPOUND ELSE AVERAGE

\* float(x) of a number is the number.
float(x) == x

Sign(x) == IF x > 0 THEN 1 ELSE IF x < 0 THEN 0 - 1 ELSE 0

(* --------------------- products --------------------------------------- *)
BULLET == "PRODUCT_BULLET_CASHFLOW"
FIXED_ACCRUED == "PRODUCT_FIXED_ACCRUED"
OVERNIGHT_INDEX_CASHFLOW == "PRODUCT_OVERNIGHT_INDEX_CASHFLOW"
RFR_SWAP == "PRODUCT_RFR_SWAP"
STREAM == "INTEREST_RATE_STREAM"
ProductTypes == {BULLET, FIXED_ACCRUED, OVERNIGHT_INDEX_CASHFLOW, RFR_SWAP}

ProductBulletCashflow(termination_date, currency, notional, long_or_short, payment_date) ==
    Ok([type |-> BULLET,
        version |-> 1,
        first_date |-> termination_date,
        last_date |-> termination_date,
        long_or_short |-> long_or_short,
        notional |-> notional,
        currency |-> currency,
        payment_date |-> IF payment_date = None THEN termination_date ELSE payment_date[1]], 0)

\* accrued_raises: whether the external accrued() call raises for this span.
ProductFixedAccrued(effective_date, termination_date, currency, notional, payment_date, accrued_raises) ==
    IF accrued_raises THEN Raise("LookupError", 0)
    ELSE Ok([type |-> FIXED_ACCRUED,
             version |-> 1,
             first_date |-> effective_date,
             effective_date |-> effective_date,
             last_date |-> termination_date,
             termination_date |-> termination_date,
             long_or_short |-> IF notional >= 0 THEN LONG ELSE SHORT,
             notional |-> notional,
             currency |-> currency,
             payment_date |-> IF payment_date # None THEN payment_date[1] ELSE termination_date,
             accrued |-> accrued(effective_date, termination_date)], 0)

\* lookup_raises: whether the index service raises although the name is registered.
ProductOvernightIndexCashflow(effective_date, term_or_termination_date, on_index, compounding_method, spread, notional, payment_date, lookup_raises) ==
    IF on_index \notin DOMAIN IndexRegistry \/ lookup_raises THEN Raise("LookupError", 0)
    ELSE LET idx == IndexRegistry[on_index]
             termination_date ==
                 IF term_or_termination_date.is_term
                 THEN Calendar_advance(effective_date, term_or_termination_date.term[1])
                 ELSE term_or_termination_date.date[1]
         IN  Ok([type |-> OVERNIGHT_INDEX_CASHFLOW,
                 version |-> 1,
                 on_index_str |-> on_index,
                 first_date |-> effective_date,
                 effective_date |-> effective_date,
                 termination_date |-> termination_date,
                 last_date |-> termination_date,
                 payment_date |-> IF payment_date = None THEN termination_date ELSE payment_date[1],
                 notional |-> notional,
                 long_or_short |-> IF notional >= 0 THEN LONG ELSE SHORT,
                 compounding_method |-> compounding_method,
                 spread |-> spread,
                 currency |-> idx.currency], 0)

OvernightIndexCashflow_serialize(self) ==
    [VERSION |-> self.version,
     TYPE |-> self.type,
     EFFECTIVE_DATE |-> Date_ISO(self.effective_date),
     TERMINATION_DATE |-> Date_ISO(self.termination_date),
     PAYMENT_DATE |-> Date_ISO(self.payment_date),
     ON_INDEX |-> self.on_index_str,
     SPREAD |-> self.spread,
     COMPOUNDING_METHOD |-> upper(CompoundingMethod_to_string(self.compounding_method)),
     NOTIONAL |-> self.notional]

OvernightIndexCashflow_deserialize_no_payment(input_dict) ==
    ProductOvernightIndexCashflow(
        Date_parse(input_dict.EFFECTIVE_DATE),
        TermOrTerminationDate_str(input_dict.TERMINATION_DATE),
        input_dict.ON_INDEX,
        CompoundingMethod_from_string(input_dict.COMPOUNDING_METHOD),
        float(input_dict.SPREAD),
        float(input_dict.NOTIONAL),
        None,
        FALSE)

OvernightIndexCashflow_deserialize(input_dict) ==
    ProductOvernightIndexCashflow(
        Date_parse(input_dict.EFFECTIVE_DATE),
        TermOrTerminationDate_str(input_dict.TERMINATION_DATE),
        input_dict.ON_INDEX,
        CompoundingMethod_from_string(input_dict.COMPOUNDING_METHOD),
        float(input_dict.SPREAD),
        float(input_dict.NOTIONAL),
        Some(Date_parse(input_dict.PAYMENT_DATE)),
        FALSE)

(* --------------------- ProductPortfolio ------------------------------- *)
\* ProductPortfolio.__init__(products, weights): the two lists have equal length.
ProductPortfolio(products, weights) ==
    IF Len(products) # Len(weights) THEN Raise("AssertionError", 0)
    ELSE Ok([type |-> STREAM,
             products |-> products,
             weights |-> weights,
             num_elements_ |-> Len(products)], 0)

\* ProductPortfolio.element(i), i counted from 0: bounds-checked access.
ProductPortfolio_element(self, i) ==
    IF 0 <= i /\ i < self.num_elements_
    THEN [ok |-> TRUE, val |-> [kind |-> "element", product |-> self.products[i + 1],
                                 weight |-> self.weights[i + 1]], err |-> "none"]
    ELSE [ok |-> FALSE, val |-> NoRet, err |-> "BoundsError"]

(* --------------------- InterestRateStream ----------------------------- *)
\* The loop state: the products and weights lists, and the exception (if any)
\* that ended the loop.
\* fail_unit: None, or Some(u): the external collaborators raise while the
\* u-th unit (counted from 0, in construction order) is being built.
Fails(acc, fail_unit) == fail_unit # None /\ fail_unit[1] = Len(acc.products)

FixedUnit_no_payment_date(row, currency, notional, fixed_rate, raises) ==
    ProductFixedAccrued(row.StartDate, row.EndDate, currency, notional * fixed_rate,
                        None, raises)

\* The fixed unit of one schedule row.
FixedUnit(row, currency, notional, fixed_rate, raises) ==
    ProductFixedAccrued(row.StartDate, row.EndDate, currency, notional * fixed_rate,
                        Some(row.PaymentDate), raises)

\* The floating unit of one schedule row.
FloatUnit(row, float_index, ois_compounding, ois_spread, notional, raises) ==
    ProductOvernightIndexCashflow(row.StartDate, TermOrTerminationDate_date(row.EndDate),
                                  float_index, ois_compounding, ois_spread, notional,
                                  Some(row.PaymentDate), raises)

StreamRow_elif(prev, row, notional, currency, float_index, fixed_rate, ois_compounding, ois_spread, fail_unit) ==
    LET fixed_product == FixedUnit(row, currency, notional, fixed_rate[1], Fails(prev, fail_unit))
        float_prod == FloatUnit(row, float_index[1], ois_compounding, ois_spread, notional,
                                Fails(prev, fail_unit))
        unit == IF fixed_rate # None THEN fixed_product ELSE float_prod
    IN  IF ~unit.ok THEN [prev EXCEPT !.ok = FALSE, !.err = unit.err]
        ELSE [prev EXCEPT !.weights = Append(@, 1), !.products = Append(@, unit.val)]

\* One iteration of the loop over the schedule rows.
StreamRow(prev, row, notional, currency, float_index, fixed_rate, ois_compounding, ois_spread, fail_unit) ==
    LET fixed_product == FixedUnit(row, currency, notional, fixed_rate[1], Fails(prev, fail_unit))
        afterFixed ==
            IF fixed_rate = None THEN prev
            ELSE IF ~fixed_product.ok THEN [prev EXCEPT !.ok = FALSE, !.err = fixed_product.err]
            ELSE [prev EXCEPT !.weights = Append(@, 1),
                              !.products = Append(@, fixed_product.val)]
        float_prod == FloatUnit(row, float_index[1], ois_compounding, ois_spread, notional,
                                Fails(afterFixed, fail_unit))
        afterFloat ==
            IF float_index = None THEN afterFixed
            ELSE IF ~float_prod.ok THEN [afterFixed EXCEPT !.ok = FALSE, !.err = float_prod.err]
            ELSE [afterFixed EXCEPT !.weights = Append(@, 1),
                                    !.products = Append(@, float_prod.val)]
    IN  IF ~afterFixed.ok THEN afterFixed ELSE afterFloat

StreamResult_swallow(built) ==
    LET p == ProductPortfolio(built.products, built.weights)
    IN  [p EXCEPT !.sched = 1]

\* The end of the constructor: an exception raised in the loop reaches the
\* caller; otherwise the lists become the portfolio.
StreamResult(built) ==
    IF ~built.ok THEN Raise(built.err, 1)
    ELSE LET p == ProductPortfolio(built.products, built.weights)
         IN  [p EXCEPT !.sched = 1]

\* The constructor from the schedule request on.
InterestRateStream_build(effective_date, termination_date, accrual_period, notional, currency, float_index, fixed_rate, ois_compounding, ois_spread, payment_offset, fail_unit) ==
    LET schedule == make_schedule(effective_date, termination_date, accrual_period, payment_offset)
        N == Len(schedule)
        loop[k \in 0..N] ==
            IF k = 0 THEN [ok |-> TRUE, err |-> "none", products |-> <<>>, weights |-> <<>>]
            ELSE IF ~loop[k - 1].ok THEN loop[k - 1]
            ELSE StreamRow(loop[k - 1], schedule[k], notional, currency, float_index, fixed_rate,
                           ois_compounding, ois_spread, fail_unit)
    IN  StreamResult(loop[N])

InterestRateStream_unchecked(effective_date, termination_date, accrual_period, notional, currency, float_index, fixed_rate, ois_compounding, ois_spread, payment_offset, fail_unit) ==
    InterestRateStream_build(effective_date, termination_date, accrual_period, notional, currency,
                             float_index, fixed_rate, ois_compounding, ois_spread, payment_offset,
                             fail_unit)

InterestRateStream(effective_date, termination_date, accrual_period, notional, currency, float_index, fixed_rate, ois_compounding, ois_spread, payment_offset, fail_unit) ==
    IF float_index = None /\ fixed_rate = None THEN Raise("ConfigurationError", 0)
    ELSE InterestRateStream_build(effective_date, termination_date, accrual_period, notional,
                                  currency, float_index, fixed_rate, ois_compounding, ois_spread,
                                  payment_offset, fail_unit)

InterestRateStream_num_cashflows(self) == self.num_elements_
InterestRateStream_cashflow(self, i) == ProductPortfolio_element(self, i)

(* --------------------- ProductRFRSwap --------------------------------- *)
FloatingLegAccrualPeriod_own_default(accrual_period, floating_leg_accrual_period) ==
    IF floating_leg_accrual_period = None THEN 1
    ELSE floating_leg_accrual_period[1]

\* The floating leg's accrual period: the swap's accrual period unless one is given.
FloatingLegAccrualPeriod(accrual_period, floating_leg_accrual_period) ==
    IF floating_leg_accrual_period = None THEN accrual_period
    ELSE floating_leg_accrual_period[1]

ProductRFRSwap(effective_date, term_or_termination_date, payment_off_set, on_index, fixed_rate, pay_or_rec, notional, accrual_period, floating_leg_accrual_period, spread, compounding_method, fail_floating, fail_fixed) ==
    IF on_index \notin DOMAIN IndexRegistry THEN Raise("LookupError", 0)
    ELSE
    LET idx == IndexRegistry[on_index]
        termination_date ==
            IF term_or_termination_date.is_term
            THEN Calendar_advance(effective_date, term_or_termination_date.term[1])
            ELSE term_or_termination_date.date[1]
        currency == idx.currency
        floating_period == FloatingLegAccrualPeriod(accrual_period, floating_leg_accrual_period)
        fixed_leg_sign == IF pay_or_rec = PAY THEN 1 ELSE 0 - 1
        floating_leg ==
            InterestRateStream(effective_date, termination_date, floating_period,
                               notional * (0 - fixed_leg_sign), currency, Some(on_index), None,
                               compounding_method, spread, payment_off_set, fail_floating)
        fixed_leg ==
            InterestRateStream(effective_date, termination_date, accrual_period,
                               notional * fixed_leg_sign, currency, None, Some(fixed_rate),
                               COMPOUND, 0, payment_off_set, fail_fixed)
    IN  IF ~floating_leg.ok THEN Raise(floating_leg.err, floating_leg.sched)
        ELSE IF ~fixed_leg.ok THEN Raise(fixed_leg.err, floating_leg.sched + fixed_leg.sched)
        ELSE Ok([type |-> RFR_SWAP,
                 version |-> 1,
                 on_index_str |-> on_index,
                 first_date |-> effective_date,
                 effective_date |-> effective_date,
                 term_or_termination_date |-> term_or_termination_date,
                 termination_date |-> termination_date,
                 last_date |-> termination_date,
                 currency |-> currency,
                 fixed_rate |-> fixed_rate,
                 notional |-> notional,
                 spread |-> spread,
                 pay_or_rec |-> pay_or_rec,
                 long_or_short |-> IF notional > 0 THEN LONG ELSE SHORT,
                 pay_offset |-> payment_off_set,
                 accrual_period |-> accrual_period,
                 floating_leg_accrual_period |-> floating_period,
                 compounding_method |-> compounding_method,
                 floating_leg |-> floating_leg.val,
                 fixed_leg |-> fixed_leg.val], floating_leg.sched + fixed_leg.sched)

ProductRFRSwap_floating_leg_cash_flow_other_leg(self, i) ==
    IF ~(0 <= i /\ i < InterestRateStream_num_cashflows(self.fixed_leg))
    THEN [ok |-> FALSE, val |-> NoRet, err |-> "BoundsError"]
    ELSE ProductPortfolio_element(self.fixed_leg, i)

ProductRFRSwap_floating_leg_cash_flow(self, i) ==
    IF ~(0 <= i /\ i < InterestRateStream_num_cashflows(self.floating_leg))
    THEN [ok |-> FALSE, val |-> NoRet, err |-> "BoundsError"]
    ELSE ProductPortfolio_element(self.floating_leg, i)

ProductRFRSwap_fixed_leg_cash_flow(self, i) ==
    IF ~(0 <= i /\ i < InterestRateStream_num_cashflows(self.fixed_leg))
    THEN [ok |-> FALSE, val |-> NoRet, err |-> "BoundsError"]
    ELSE ProductPortfolio_element(self.fixed_leg, i)

(* --------------------- visitor ---------------------------------------- *)
\* A visitor has one handler per product variant; handler h of visitor v
\* returns the value [handler |-> h, visitor |-> v].
Visitors == {1, 2}
HandlerResult(visitor, h) == [handler |-> h, visitor |-> visitor]

\* ProductVisitor.visit(product): runs the handler registered for the
\* product's concrete type; yields the handlers run and the value returned.
ProductVisitor_visit(visitor, product) ==
    [calls |-> <<product.type>>, ret |-> HandlerResult(visitor, product.type)]

\* Product.accept(visitor) as inherited by the variants that do not override it.
Product_accept(self, visitor) == ProductVisitor_visit(visitor, self)

OvernightIndexCashflow_accept_no_return(self, visitor) ==
    [ProductVisitor_visit(visitor, self) EXCEPT !.ret = [handler |-> "none", visitor |-> visitor]]

OvernightIndexCashflow_accept(self, visitor) == ProductVisitor_visit(visitor, self)

(* --------------------- OptionStrategyRegistry.data.strategies --------- *)
\* A strategy's content is a dict from (option type, delta strike) to weight:
\* a function whose domain is the set of keys.
MaxWeight == 1
LegCounts == {0, 1, 2}
Weights == (0 - MaxWeight)..MaxWeight
OptTypeStrings == {"c", "P", "F"}
DeltaStrikes == {25, 50}
OPTION_STRATEGY == "OPTION_STRATEGY"
CALL == "CALL"
PUT == "PUT"
FORWARD == "FORWARD"

OptionStrategy(name, content) == [type |-> OPTION_STRATEGY, name |-> name, content |-> content]

OptionPayoffOf(t) ==
    IF upper(t) = "C" THEN CALL ELSE IF upper(t) = "P" THEN PUT ELSE FORWARD

\* createFromList: the dict is filled in list order, a later entry replacing
\* an earlier one with the same key.
OptionStrategy_createFromList(name, opt_types, delta_strikes, weights) ==
    LET key(i) == <<OptionPayoffOf(opt_types[i]), delta_strikes[i]>>
        n == Len(opt_types)
        keys == {key(i) : i \in 1..n}
        last(k) == CHOOSE i \in 1..n : key(i) = k /\ \A j \in 1..n : key(j) = k => j <= i
    IN  OptionStrategy(name, [k \in keys |-> weights[last(k)]])

OptionStrategy_contains(self, key) == key \in DOMAIN self.content
OptionStrategy_getitem(self, key) == self.content[key]
OptionStrategy_len(self) == Cardinality(DOMAIN self.content)

\* self + in_strategy. The first loop copies each key of self, adds the other
\* operand's weight when it has the key, and pops the key when the sum is 0;
\* the second loop copies the other operand's keys that the first did not meet.
OptionStrategy_add(self, in_strategy) ==
    LET a == self.content
        b == in_strategy.content
        summed(k) == IF k \in DOMAIN b THEN a[k] + OptionStrategy_getitem(in_strategy, k) ELSE a[k]
        traversed_keys == {k \in DOMAIN a : k \in DOMAIN b}
        kept == {k \in DOMAIN a : summed(k) # 0}
        fresh == {k \in DOMAIN b : k \notin traversed_keys}
    IN  OptionStrategy(<<self.name, "ADD", in_strategy.name>>,
                       [k \in kept \cup fresh |-> IF k \in kept THEN summed(k) ELSE b[k]])

(* --------------------- the program as a state machine ----------------- *)
\* op    the last call made by the client
\* inp   the arguments of the last call that took any
\* obj   the object the client holds (NoObj when it holds none)
\* err   the exception the last call raised ("none" when it returned)
\* ret   the value the last accessor or accept call returned
\* ser   the dict produced by the last serialize call
\* calls the visitor handlers run by the last call
\* sched the number of schedule requests issued by the last call
VARIABLES op, inp, obj, err, ret, ser, calls, sched

vars == <<op, inp, obj, err, ret, ser, calls, sched>>

Init ==
    /\ op = "init"
    /\ inp = NoInp
    /\ obj = NoObj
    /\ err = "none"
    /\ ret = NoRet
    /\ ser = NoSer
    /\ calls = <<>>
    /\ sched = 0

\* The client, holding nothing yet, makes constructor call c with arguments a
\* and receives its outcome r.
Construct(c, a, r) ==
    /\ op' = c
    /\ inp' = a
    /\ obj' = r.val
    /\ err' = r.err
    /\ sched' = r.sched
    /\ ret' = NoRet
    /\ ser' = NoSer
    /\ calls' = <<>>

NewBulletCashflow ==
    /\ op = "init"
    /\ \E termination_date \in Dates, currency \in Currencies, notional \in Notionals,
       long_or_short \in LongOrShort, payment_date \in Opt(Dates) :
        Construct("ProductBulletCashflow",
                  [op |-> "ProductBulletCashflow", termination_date |-> termination_date,
                   notional |-> notional, long_or_short |-> long_or_short,
                   payment_date |-> payment_date],
                  ProductBulletCashflow(termination_date, currency, notional, long_or_short,
                                        payment_date))

NewFixedAccrued ==
    /\ op = "init"
    /\ \E effective_date \in Dates, termination_date \in Dates, currency \in Currencies,
       notional \in Notionals, payment_date \in Opt(Dates), accrued_raises \in BOOLEAN :
        Construct("ProductFixedAccrued",
                  [op |-> "ProductFixedAccrued", effective_date |-> effective_date,
                   termination_date |-> termination_date, notional |-> notional,
                   payment_date |-> payment_date, accrued_raises |-> accrued_raises],
                  ProductFixedAccrued(effective_date, termination_date, currency, notional,
                                      payment_date, accrued_raises))

NewOvernightIndexCashflow ==
    /\ op = "init"
    /\ \E effective_date \in Dates, tt \in TermOrTerminationDates, on_index \in IndexNames,
       compounding_method \in CompoundingMethod, spread \in Spreads, notional \in Notionals,
       payment_date \in Opt(Dates) :
        Construct("ProductOvernightIndexCashflow",
                  [op |-> "ProductOvernightIndexCashflow", effective_date |-> effective_date,
                   term_or_termination_date |-> tt, on_index |-> on_index,
                   compounding_method |-> compounding_method, spread |-> spread,
                   notional |-> notional, payment_date |-> payment_date],
                  ProductOvernightIndexCashflow(effective_date, tt, on_index, compounding_method,
                                                spread, notional, payment_date, FALSE))

\* The schedule service is asked for ranges with effective <= termination only.
NewInterestRateStream ==
    /\ op = "init"
    /\ \E effective_date \in Dates, termination_date \in Dates, accrual_period \in Periods,
       notional \in Notionals, currency \in Currencies, float_index \in Opt(IndexNames),
       fixed_rate \in Opt(Rates), payment_offset \in Offsets, fail_unit \in Opt(0..MaxDate) :
        /\ effective_date <= termination_date
        /\ Construct("InterestRateStream",
                     [op |-> "InterestRateStream", effective_date |-> effective_date,
                      termination_date |-> termination_date, accrual_period |-> accrual_period,
                      notional |-> notional, float_index |-> float_index,
                      fixed_rate |-> fixed_rate, payment_offset |-> payment_offset,
                      fail_unit |-> fail_unit],
                     InterestRateStream(effective_date, termination_date, accrual_period, notional,
                                        currency, float_index, fixed_rate, COMPOUND, 0,
                                        payment_offset, fail_unit))

SwapTermination(effective_date, tt) ==
    IF tt.is_term THEN Calendar_advance(effective_date, tt.term[1]) ELSE tt.date[1]

NewRFRSwap ==
    /\ op = "init"
    /\ \E effective_date \in Dates, tt \in TermOrTerminationDates, payment_off_set \in Offsets,
       on_index \in IndexNames, fixed_rate \in Rates, pay_or_rec \in PayOrReceive,
       notional \in Notionals, accrual_period \in Periods,
       floating_leg_accrual_period \in Opt(Periods), fail_floating \in Opt({0}),
       fail_fixed \in Opt({0, 1}) :
        /\ effective_date <= SwapTermination(effective_date, tt)
        /\ SwapTermination(effective_date, tt) <= MaxDate
        /\ Construct("ProductRFRSwap",
                     [op |-> "ProductRFRSwap", effective_date |-> effective_date,
                      term_or_termination_date |-> tt, payment_off_set |-> payment_off_set,
                      on_index |-> on_index, fixed_rate |-> fixed_rate,
                      pay_or_rec |-> pay_or_rec, notional |-> notional,
                      accrual_period |-> accrual_period,
                      floating_leg_accrual_period |-> floating_leg_accrual_period,
                      fail_floating |-> fail_floating, fail_fixed |-> fail_fixed],
                     ProductRFRSwap(effective_date, tt, payment_off_set, on_index, fixed_rate,
                                    pay_or_rec, notional, accrual_period,
                                    floating_leg_accrual_period, 0, COMPOUND,
                                    fail_floating, fail_fixed))

\* product.accept(visitor)
Accept ==
    /\ obj.type \in ProductTypes
    /\ \E visitor \in Visitors :
        /\ LET r == IF obj.type = OVERNIGHT_INDEX_CASHFLOW
                    THEN OvernightIndexCashflow_accept(obj, visitor)
                    ELSE Product_accept(obj, visitor)
           IN  /\ calls' = r.calls
               /\ ret' = [kind |-> "visited", val |-> r.ret]
        /\ op' = "accept"
        /\ inp' = [op |-> "accept", visitor |-> visitor]
        /\ err' = "none"
        /\ sched' = 0
        /\ UNCHANGED <<obj, ser>>

\* x.serialize()
Serialize ==
    /\ obj.type = OVERNIGHT_INDEX_CASHFLOW
    /\ op # "serialize"
    /\ ser' = OvernightIndexCashflow_serialize(obj)
    /\ op' = "serialize"
    /\ err' = "none"
    /\ ret' = NoRet
    /\ calls' = <<>>
    /\ sched' = 0
    /\ UNCHANGED <<obj, inp>>

\* ProductOvernightIndexCashflow.deserialize(ser): the client keeps the result.
Deserialize ==
    /\ ser.TYPE # "NONE"
    /\ op = "serialize"
    /\ LET r == OvernightIndexCashflow_deserialize(ser)
       IN  /\ obj' = r.val
           /\ err' = r.err
    /\ op' = "deserialize"
    /\ ret' = NoRet
    /\ calls' = <<>>
    /\ sched' = 0
    /\ UNCHANGED <<ser, inp>>

Indices == (0 - 1)..(MaxDate + 1)

Access(c, i, r) ==
    /\ op' = c
    /\ inp' = [op |-> c, i |-> i]
    /\ ret' = r.val
    /\ err' = r.err
    /\ calls' = <<>>
    /\ sched' = 0
    /\ UNCHANGED <<obj, ser>>

FloatingLegCashFlow ==
    /\ obj.type = RFR_SWAP
    /\ \E i \in Indices :
        Access("floating_leg_cash_flow", i, ProductRFRSwap_floating_leg_cash_flow(obj, i))

FixedLegCashFlow ==
    /\ obj.type = RFR_SWAP
    /\ \E i \in Indices :
        Access("fixed_leg_cash_flow", i, ProductRFRSwap_fixed_leg_cash_flow(obj, i))

Cashflow ==
    /\ obj.type = STREAM
    /\ \E i \in Indices :
        Access("cashflow", i, InterestRateStream_cashflow(obj, i))

\* OptionStrategy.createFromList(name, opt_types, delta_strikes, weights)
NewOptionStrategy ==
    /\ op = "init"
    /\ \E n \in LegCounts :
       \E opt_types \in [1..n -> OptTypeStrings], delta_strikes \in [1..n -> DeltaStrikes],
          weights \in [1..n -> Weights] :
        Construct("createFromList",
                  [op |-> "createFromList", opt_types |-> opt_types,
                   delta_strikes |-> delta_strikes, weights |-> weights],
                  Ok(OptionStrategy_createFromList("A", opt_types, delta_strikes, weights), 0))

\* a + b, a being the strategy the client holds and b another one it builds.
StrategyAdd ==
    /\ obj.type = OPTION_STRATEGY
    /\ op = "createFromList"
    /\ \E n \in LegCounts :
       \E opt_types \in [1..n -> OptTypeStrings], delta_strikes \in [1..n -> DeltaStrikes],
          weights \in [1..n -> Weights] :
        LET b == OptionStrategy_createFromList("B", opt_types, delta_strikes, weights)
        IN  /\ obj' = OptionStrategy_add(obj, b)
            /\ inp' = [op |-> "__add__", a |-> obj, b |-> b]
    /\ op' = "__add__"
    /\ err' = "none"
    /\ ret' = NoRet
    /\ calls' = <<>>
    /\ sched' = 0
    /\ UNCHANGED ser

Next ==
    \/ NewBulletCashflow
    \/ NewFixedAccrued
    \/ NewOvernightIndexCashflow
    \/ NewInterestRateStream
    \/ NewRFRSwap
    \/ Accept
    \/ Serialize
    \/ Deserialize
    \/ FloatingLegCashFlow
    \/ FixedLegCashFlow
    \/ Cashflow
    \/ NewOptionStrategy
    \/ StrategyAdd

Spec == Init /\ [][Next]_vars

(* --------------------- properties ------------------------------------- *)
NoneOrOne(x) == IF x = None THEN 0 ELSE 1

\* The schedule rows of the stream construction whose arguments are in inp.
InpRows == make_schedule(inp.effective_date, inp.termination_date, inp.accrual_period,
                         inp.payment_offset)

\* Product p is a unit of variant t built over schedule row r.
UnitOfRow(p, t, r) ==
    /\ p.type = t
    /\ p.first_date = r.StartDate
    /\ p.last_date = r.EndDate
    /\ p.payment_date = r.PaymentDate

\* C1: constructing an InterestRateStream with fixed_rate and float_index both
\* None raises the configuration error, whatever the other arguments; it does
\* so before any schedule is requested, and no stream is created.
C1_BothUnsetFails ==
    (op = "InterestRateStream" /\ inp.float_index = None /\ inp.fixed_rate = None)
        => (err = "ConfigurationError" /\ obj.type = "NONE" /\ sched = 0)

C1_Witness ==
    /\ op = "InterestRateStream"
    /\ inp.float_index = None /\ inp.fixed_rate = None
    /\ inp.effective_date < inp.termination_date
    /\ err = "ConfigurationError"

\* C2: a stream built with fixed_rate set and float_index unset over a
\* schedule of N rows (N = 0 included) has exactly N elements, each of weight 1,
\* the k-th being the FixedAccrued unit over row k's (start, end) with row k's
\* payment date, in ascending order of period start.
C2_FixedOnlyStream ==
    (op = "InterestRateStream" /\ err = "none" /\ inp.fixed_rate # None /\ inp.float_index = None)
        => /\ obj.type = STREAM
           /\ obj.num_elements_ = Len(InpRows)
           /\ Len(obj.products) = Len(InpRows)
           /\ Len(obj.weights) = Len(InpRows)
           /\ \A k \in 1..Len(InpRows) :
                /\ obj.weights[k] = 1
                /\ UnitOfRow(obj.products[k], FIXED_ACCRUED, InpRows[k])
           /\ \A j, k \in 1..Len(obj.products) :
                j < k => obj.products[j].first_date < obj.products[k].first_date

C2_Witness ==
    /\ op = "InterestRateStream" /\ err = "none"
    /\ inp.fixed_rate # None /\ inp.float_index = None
    /\ Len(InpRows) >= 2
    /\ inp.payment_offset = 1
    /\ obj.num_elements_ = Len(InpRows)

\* C3: a stream built with both fixed_rate and float_index set over a schedule
\* of N rows has exactly 2N elements; the elements at (0-based) positions 2k
\* and 2k+1 are the FixedAccrued unit and the OvernightIndexCashflow unit of
\* row k, each of weight 1.
C3_PairedStream ==
    (op = "InterestRateStream" /\ err = "none" /\ inp.fixed_rate # None /\ inp.float_index # None)
        => /\ obj.type = STREAM
           /\ obj.num_elements_ = 2 * Len(InpRows)
           /\ Len(obj.products) = 2 * Len(InpRows)
           /\ Len(obj.weights) = 2 * Len(InpRows)
           /\ \A k \in 1..Len(InpRows) :
                /\ obj.weights[2 * k - 1] = 1
                /\ obj.weights[2 * k] = 1
                /\ UnitOfRow(obj.products[2 * k - 1], FIXED_ACCRUED, InpRows[k])
                /\ UnitOfRow(obj.products[2 * k], OVERNIGHT_INDEX_CASHFLOW, InpRows[k])

C3_Witness ==
    /\ op = "InterestRateStream" /\ err = "none"
    /\ inp.fixed_rate # None /\ inp.float_index # None
    /\ Len(InpRows) >= 2
    /\ Len(obj.products) = 2 * Len(InpRows)

\* C4: in a swap built with PAY and notional N > 0 every fixed-leg cashflow's
\* notional has sign +1 and every floating-leg cashflow's notional has sign -1,
\* for every fixed rate the constructor accepts; RECEIVE flips both signs.
C4_SignInvariant ==
    (op = "ProductRFRSwap" /\ err = "none" /\ inp.notional > 0)
        => LET s == IF inp.pay_or_rec = PAY THEN 1 ELSE 0 - 1
           IN  /\ \A k \in 1..Len(obj.fixed_leg.products) :
                    Sign(obj.fixed_leg.products[k].notional) = s
               /\ \A k \in 1..Len(obj.floating_leg.products) :
                    Sign(obj.floating_leg.products[k].notional) = 0 - s

\* C5: deserializing the dict a valid OvernightIndexCashflow serialized to
\* succeeds, and the result serializes to that same dict, key by key.
C5_RoundTrip ==
    (op = "deserialize")
        => /\ err = "none"
           /\ obj.type = OVERNIGHT_INDEX_CASHFLOW
           /\ OvernightIndexCashflow_serialize(obj) = ser

C5_Witness ==
    /\ op = "deserialize"
    /\ inp.op = "ProductOvernightIndexCashflow"
    /\ inp.term_or_termination_date.is_term
    /\ inp.payment_date # None
    /\ ser.PAYMENT_DATE # ser.TERMINATION_DATE
    /\ ser.TERMINATION_DATE[2] # ser.EFFECTIVE_DATE[2]
    /\ OvernightIndexCashflow_serialize(obj) = ser

C7_LongIffNonNegative ==
    (obj.type \in ProductTypes)
        => (obj.long_or_short = LONG <=> obj.notional >= 0)

\* C8: every constructed product has first_date <= last_date, and a
\* BulletCashflow has first_date = last_date.
C8_OrderedSpan ==
    (obj.type \in ProductTypes)
        => /\ obj.first_date <= obj.last_date
           /\ obj.type = BULLET => obj.first_date = obj.last_date

\* The outcome of an indexed access at inp.i into leg: the element at that
\* position when 0 <= i < num_cashflows(), a bounds error and nothing otherwise.
LegAccessChecked(leg) ==
    IF 0 <= inp.i /\ inp.i < InterestRateStream_num_cashflows(leg)
    THEN /\ err = "none"
         /\ ret = [kind |-> "element", product |-> leg.products[inp.i + 1],
                   weight |-> leg.weights[inp.i + 1]]
    ELSE /\ err = "BoundsError"
         /\ ret.kind = "none"

\* C9: floating_leg_cash_flow(i) and fixed_leg_cash_flow(i) return the i-th
\* element of their leg when 0 <= i < num_cashflows() of that leg, and fail
\* with a bounds error, returning nothing, for every other i; the swap is
\* left as it was either way.
C9_BoundsChecked ==
    /\ [](op = "floating_leg_cash_flow" => LegAccessChecked(obj.floating_leg))
    /\ [](op = "fixed_leg_cash_flow" => LegAccessChecked(obj.fixed_leg))
    /\ [][op' \in {"floating_leg_cash_flow", "fixed_leg_cash_flow"} => obj' = obj]_vars

C9_Witness ==
    /\ op = "floating_leg_cash_flow"
    /\ inp.i = InterestRateStream_num_cashflows(obj.floating_leg)
    /\ inp.i >= 2
    /\ InterestRateStream_num_cashflows(obj.fixed_leg) > inp.i
    /\ err = "BoundsError"

\* The number of units a stream over n rows holds.
ExpectedUnits(n, float_index, fixed_rate) == n * (NoneOrOne(float_index) + NoneOrOne(fixed_rate))

SwapRows(period) ==
    make_schedule(inp.effective_date, SwapTermination(inp.effective_date, inp.term_or_termination_date),
                  period, inp.payment_off_set)

SwapFloatingPeriod ==
    IF inp.floating_leg_accrual_period = None THEN inp.accrual_period
    ELSE inp.floating_leg_accrual_period[1]

\* C10: a construction of a stream or swap in which a unit of some row cannot
\* be built, or whose second leg fails after the first was built, raises to
\* the caller and yields no object; an object that is yielded holds the units
\* of every row (for a swap: both legs, each complete).
C10_AllOrNothing ==
    /\ (op \in {"InterestRateStream", "ProductRFRSwap"} /\ err # "none") => obj.type = "NONE"
    /\ (op = "InterestRateStream" /\ ~(inp.float_index = None /\ inp.fixed_rate = None))
        => LET exp == ExpectedUnits(Len(InpRows), inp.float_index, inp.fixed_rate)
           IN  /\ (inp.fail_unit # None /\ inp.fail_unit[1] < exp) => err # "none"
               /\ err = "none" =>
                    /\ obj.type = STREAM
                    /\ Len(obj.products) = exp
                    /\ Len(obj.weights) = exp
    /\ (op = "ProductRFRSwap" /\ inp.on_index \in DOMAIN IndexRegistry)
        => LET nfloat == Len(SwapRows(SwapFloatingPeriod))
               nfixed == Len(SwapRows(inp.accrual_period))
           IN  /\ (inp.fail_floating # None /\ inp.fail_floating[1] < nfloat) => err # "none"
               /\ (inp.fail_fixed # None /\ inp.fail_fixed[1] < nfixed) => err # "none"
               /\ err = "none" =>
                    /\ obj.type = RFR_SWAP
                    /\ Len(obj.floating_leg.products) = nfloat
                    /\ Len(obj.fixed_leg.products) = nfixed

C10_Witness ==
    /\ op = "ProductRFRSwap"
    /\ inp.on_index \in DOMAIN IndexRegistry
    /\ inp.fail_floating = None
    /\ inp.fail_fixed = Some(1)
    /\ Len(SwapRows(inp.accrual_period)) >= 2
    /\ err = "LookupError"
    /\ obj.type = "NONE"

\* C11: a swap's legs are built over the one resolved termination date; when no
\* floating_leg_accrual_period is given they have the same number of cashflows
\* and cashflow i of the fixed leg and cashflow i of the floating leg have the
\* same start, end and payment date; the fixed leg holds only FixedAccrued
\* units and the floating leg only OvernightIndexCashflow units.
C11_LegsAligned ==
    (op = "ProductRFRSwap" /\ err = "none")
        => LET fx == obj.fixed_leg.products
               fl == obj.floating_leg.products
           IN  /\ \A k \in 1..Len(fx) : fx[k].type = FIXED_ACCRUED
               /\ \A k \in 1..Len(fl) : fl[k].type = OVERNIGHT_INDEX_CASHFLOW
               /\ obj.termination_date = SwapTermination(inp.effective_date, inp.term_or_termination_date)
               /\ Len(fx) > 0 => fx[Len(fx)].last_date = obj.termination_date
               /\ Len(fl) > 0 => fl[Len(fl)].last_date = obj.termination_date
               /\ inp.floating_leg_accrual_period = None =>
                    /\ obj.floating_leg_accrual_period = obj.accrual_period
                    /\ Len(fx) = Len(fl)
                    /\ \A k \in 1..Len(fx) :
                         /\ fx[k].first_date = fl[k].first_date
                         /\ fx[k].last_date = fl[k].last_date
                         /\ fx[k].payment_date = fl[k].payment_date

C11_Witness ==
    /\ op = "ProductRFRSwap" /\ err = "none"
    /\ inp.floating_leg_accrual_period = None
    /\ inp.accrual_period = 2
    /\ inp.payment_off_set = 1
    /\ Len(obj.fixed_leg.products) >= 2
    /\ Len(obj.floating_leg.products) = Len(obj.fixed_leg.products)

\* The weight of key k in dict c, a missing key counting as 0.
WeightOf(c, k) == IF k \in DOMAIN c THEN c[k] ELSE 0

\* C12: for any two strategies a and b, (a + b).content = (b + a).content;
\* its keys are the keys of either operand whose weights in a and b sum to a
\* non-zero value, each mapped to that sum; no key of weight 0 is in it.
C12_AddCommutes ==
    (op = "__add__")
        => LET a == inp.a.content
               b == inp.b.content
               ab == obj.content
               ba == OptionStrategy_add(inp.b, inp.a).content
           IN  /\ ab = ba
               /\ DOMAIN ab = {k \in DOMAIN a \cup DOMAIN b : WeightOf(a, k) + WeightOf(b, k) # 0}
               /\ \A k \in DOMAIN ab : ab[k] = WeightOf(a, k) + WeightOf(b, k)
               /\ \A k \in DOMAIN ab : ab[k] # 0

====
